---- MODULE Spec2Model ----
(***************************************************************************)
(* Model of the exposure arithmetic of src/zone_system_app.py:             *)
(* shutter_to_ev, ev_to_shutter, format_shutter, nearest_standard_shutter, *)
(* compute_zone5_ev, zone_from_reading and recommend_exposure.             *)
(*                                                                         *)
(* Number representation.  The program computes with Python floats.  Here  *)
(* a shutter time (seconds), an f-number and an ISO value are exact        *)
(* rationals <<n, d>> with d > 0 in lowest terms.  A value on the log2     *)
(* scale (an EV, an EV difference, a zone position) is a real x that is    *)
(* irrational for most ladder entries, so it is represented by the         *)
(* rational 2^x:                                                           *)
(*      x + y   is  Mul(X, Y)          x - y   is  Div(X, Y)               *)
(*      -x      is  Inv(X)             log2(q) is  q                       *)
(*      2 ** x  is  X                  integer k is Pow2(k)                *)
(* The representation is injective, so equality of log-scale values is     *)
(* equality of their representations.  Floating-point rounding (about      *)
(* 1e-15 relative) is not modelled.                                        *)
(***************************************************************************)
EXTENDS Integers, Sequences, FiniteSets, TLC

VARIABLES aperture, iso, zone_choice, brightest, darkest, midtone, subject,
          pc, result, t_in, t_out, t_again

vars == <<aperture, iso, zone_choice, brightest, darkest, midtone, subject,
          pc, result, t_in, t_out, t_again>>

-----------------------------------------------------------------------------
(* Exact rational arithmetic standing for the float operators of the code. *)

RECURSIVE Gcd(_, _)
Gcd(a, b) == IF b = 0 THEN a ELSE Gcd(b, a % b)

AbsInt(n) == IF n < 0 THEN -n ELSE n

Norm(q) ==
    LET g == Gcd(AbsInt(q[1]), AbsInt(q[2]))
        s == IF q[2] < 0 THEN -1 ELSE 1
    IN  <<(s * q[1]) \div g, (s * q[2]) \div g>>

Q(n, d) == Norm(<<n, d>>)

Mul(x, y) == Norm(<<x[1] * y[1], x[2] * y[2]>>)

Inv(x) == Norm(<<x[2], x[1]>>)

Div(x, y) == Mul(x, Inv(y))

Sub(x, y) == Norm(<<x[1] * y[2] - y[1] * x[2], x[2] * y[2]>>)

Abs(x) == <<AbsInt(x[1]), x[2]>>

\* x < y for non-negative rationals, by comparing continued-fraction
\* expansions (no cross products, which would exceed the integer range).
RECURSIVE Less(_, _)
Less(x, y) ==
    LET qx == x[1] \div x[2]
        qy == y[1] \div y[2]
        rx == x[1] % x[2]
        ry == y[1] % y[2]
    IN  IF qx # qy THEN qx < qy
        ELSE IF ry = 0 THEN FALSE
        ELSE IF rx = 0 THEN TRUE
        ELSE Less(<<y[2], ry>>, <<x[2], rx>>)

Geq(x, y) == ~Less(x, y)

RECURSIVE Pow2(_)
Pow2(k) == IF k = 0 THEN <<1, 1>>
           ELSE IF k > 0 THEN Mul(<<2, 1>>, Pow2(k - 1))
           ELSE Mul(<<1, 2>>, Pow2(k + 1))

\* Python round(): nearest integer, halves to the even neighbour (x >= 0).
round(x) ==
    LET f == x[1] \div x[2]
        r2 == 2 * (x[1] % x[2])
    IN  IF r2 < x[2] THEN f
        ELSE IF r2 > x[2] THEN f + 1
        ELSE IF f % 2 = 0 THEN f ELSE f + 1

\* math.log2 raises ValueError ("math domain error") for an argument <= 0.
log2_raises(x) == x[1] <= 0

\* Python None.
None == <<>>

-----------------------------------------------------------------------------
(* Utility: shutter/EV conversions.                                        *)

\* Variant: the sign of the logarithm is lost, math.log2(t_seconds).
shutter_to_ev_NoNegation(t_seconds) == t_seconds

\* -math.log2(t_seconds); the result is on the log2 scale.
shutter_to_ev(t_seconds) == Inv(t_seconds)

\* 1 / (2 ** ev)
ev_to_shutter(ev) == Div(<<1, 1>>, ev)

\* f"{int(round(t))}s" if t >= 1 else f"1/{int(round(1/t))}s"
format_shutter(t) ==
    IF Geq(t, <<1, 1>>)
    THEN [form |-> "{n}s", n |-> round(t)]
    ELSE [form |-> "1/{n}s", n |-> round(Inv(t))]

\* Standard shutter speeds (seconds), long to short.
STANDARD_SHUTTERS ==
    << <<30, 1>>, <<15, 1>>, <<8, 1>>, <<4, 1>>, <<2, 1>>, <<1, 1>>,
       <<1, 2>>, <<1, 4>>, <<1, 8>>, <<1, 15>>, <<1, 30>>, <<1, 60>>,
       <<1, 125>>, <<1, 250>>, <<1, 500>>, <<1, 1000>>, <<1, 2000>>,
       <<1, 4000>> >>

Ladder == {STANDARD_SHUTTERS[i] : i \in 1..Len(STANDARD_SHUTTERS)}

\* key=lambda s: abs(s - t)
ShutterKey(s, t) == Abs(Sub(s, t))

\* Variant: ties go to the last minimal item instead of the first.
LastMin(keys) ==
    CHOOSE i \in 1..Len(keys) :
        \A j \in 1..Len(keys) :
            IF j > i THEN Less(keys[i], keys[j]) ELSE ~Less(keys[j], keys[i])

\* The builtin min(): the index of the first item whose key is minimal.
\* Every earlier key is strictly larger and no later key is smaller.
FirstMin(keys) ==
    CHOOSE i \in 1..Len(keys) :
        \A j \in 1..Len(keys) :
            IF j < i THEN Less(keys[i], keys[j]) ELSE ~Less(keys[j], keys[i])

\* Variant: the raw shutter time is returned without snapping.
nearest_standard_shutter_NoSnap(t) == t

nearest_standard_shutter(t) ==
    LET keys == [i \in 1..Len(STANDARD_SHUTTERS) |->
                    ShutterKey(STANDARD_SHUTTERS[i], t)]
    IN  STANDARD_SHUTTERS[FirstMin(keys)]

-----------------------------------------------------------------------------
(* Core exposure logic (Zone System).  A dict is the sequence of its        *)
(* <<key, value>> items in insertion order.                                *)

Has(dict, key) == \E i \in 1..Len(dict) : dict[i][1] = key

Get(dict, key) == dict[CHOOSE i \in 1..Len(dict) : dict[i][1] = key][2]

\* list(readings_ev.values())[0]
FirstValue(dict) == dict[1][2]

\* Variant: Midtone is consulted before Subject.
compute_zone5_ev_MidtoneFirst(zone, readings_ev) ==
    IF Has(readings_ev, "Darkest")
    THEN Mul(Get(readings_ev, "Darkest"), Pow2(5 - zone))
    ELSE IF Has(readings_ev, "Midtone") THEN Get(readings_ev, "Midtone")
    ELSE IF Has(readings_ev, "Subject") THEN Get(readings_ev, "Subject")
    ELSE FirstValue(readings_ev)

compute_zone5_ev(zone, readings_ev) ==
    IF Has(readings_ev, "Darkest")
    THEN Mul(Get(readings_ev, "Darkest"), Pow2(5 - zone))
    ELSE IF Has(readings_ev, "Subject") THEN Get(readings_ev, "Subject")
    ELSE IF Has(readings_ev, "Midtone") THEN Get(readings_ev, "Midtone")
    ELSE FirstValue(readings_ev)

\* Variant: the difference is taken the other way, 5 + (ev_final - ev_read).
zone_from_reading_Flipped(ev_read, ev_final) ==
    Mul(Pow2(5), Div(ev_final, ev_read))

\* Variant: the position is clamped to the strip, max(0, min(10, zone)).
zone_from_reading_Clamped(ev_read, ev_final) ==
    LET z == Mul(Pow2(5), Div(ev_read, ev_final))
    IN  IF Less(z, Pow2(0)) THEN Pow2(0)
        ELSE IF Less(Pow2(10), z) THEN Pow2(10) ELSE z

\* 5 + (ev_read - ev_final)
zone_from_reading(ev_read, ev_final) == Mul(Pow2(5), Div(ev_read, ev_final))

\* The keyword arguments that are not None, in the order of lines 71-74.
Supplied(b, d, m, s) ==
    LET all == << <<"Brightest", b>>, <<"Darkest", d>>,
                  <<"Midtone", m>>, <<"Subject", s>> >>
        given(item) == item[2] # None
    IN  SelectSeq(all, given)

\* The call ends in an uncaught ValueError of math.log2.
Raised ==
    [outcome |-> "ValueError", text |-> <<>>, ev_final |-> None,
     zones_map |-> <<>>, t_std |-> None]

\* return "No valid readings provided.", None, {}, None
NoReadingsReturn ==
    [outcome |-> "returned",
     text |-> << [kind |-> "No valid readings provided."] >>,
     ev_final |-> None, zones_map |-> <<>>, t_std |-> None]

\* Lines 82-93: the scene-range line and the placement line.
PlacementLines(zone, readings_ev, ev_final) ==
    (IF Has(readings_ev, "Brightest") /\ Has(readings_ev, "Darkest")
     THEN << [kind |-> "Scene brightness range",
              stops |-> Div(Get(readings_ev, "Brightest"),
                            Get(readings_ev, "Darkest"))] >>
     ELSE <<>>)
    \o
    (IF Has(readings_ev, "Darkest")
     THEN << [kind |-> "Placing darkest on Zone", zone |-> zone,
              ev |-> ev_final] >>
     ELSE IF Has(readings_ev, "Subject")
     THEN << [kind |-> "Using subject as Zone V", ev |-> ev_final] >>
     ELSE IF Has(readings_ev, "Midtone")
     THEN << [kind |-> "Using midtone as Zone V", ev |-> ev_final] >>
     ELSE <<>>)

reference_aperture == 16
reference_iso == 100

\* (aperture / reference_aperture) ** 2, the argument of math.log2 on line 98
ApertureRatio(ap) ==
    LET r == Div(ap, <<reference_aperture, 1>>) IN Mul(r, r)

\* iso / reference_iso, the argument of math.log2 on line 99
IsoRatio(is) == Div(is, <<reference_iso, 1>>)

\* ev_final - aperture_adjust - iso_adjust
ev_for_shutter(ev_final, aperture_adjust, iso_adjust) ==
    Div(Div(ev_final, aperture_adjust), iso_adjust)

\* Lines 70-74: readings_ev, in insertion order (all supplied values > 0).
ReadingsEV(b, d, m, s) ==
    LET sup == Supplied(b, d, m, s)
    IN  [i \in 1..Len(sup) |-> <<sup[i][1], shutter_to_ev(sup[i][2])>>]

recommend_exposure(ap, is, zone, b, d, m, s) ==
    LET sup == Supplied(b, d, m, s)
    IN
    IF \E i \in 1..Len(sup) : log2_raises(sup[i][2]) THEN Raised
    ELSE
    LET readings_ev == ReadingsEV(b, d, m, s)
    IN
    IF Len(readings_ev) = 0 THEN NoReadingsReturn
    ELSE
    LET ev_final == compute_zone5_ev(zone, readings_ev)
        lines == PlacementLines(zone, readings_ev, ev_final)
    IN
    IF log2_raises(ApertureRatio(ap)) \/ log2_raises(IsoRatio(is)) THEN Raised
    ELSE
    LET aperture_adjust == ApertureRatio(ap)
        iso_adjust == IsoRatio(is)
        t == ev_to_shutter(ev_for_shutter(ev_final, aperture_adjust, iso_adjust))
        t_std == nearest_standard_shutter(t)
        shutter_str == format_shutter(t_std)
        zones == [i \in 1..Len(readings_ev) |->
                     <<readings_ev[i][1],
                       zone_from_reading(readings_ev[i][2], ev_final)>>]
    IN  [outcome |-> "returned",
         text |-> Append(lines, [kind |-> "Suggested exposure",
                                 shutter |-> shutter_str,
                                 aperture |-> ap, iso |-> is]),
         ev_final |-> ev_final, zones_map |-> zones, t_std |-> t_std]

-----------------------------------------------------------------------------
(* Inputs of the calls.                                                    *)

MaxZone == 3
MaxNum == 12
MaxDen == 12

\* The radio offers 2 and 3; the function takes any integer.
ZoneChoices == 2..MaxZone

\* f-numbers: the reference, one wider stop, and two non-positive values.
ApertureInputs == {<<16, 1>>, <<8, 1>>, <<0, 1>>, <<-8, 1>>}

IsoInputs == {<<100, 1>>, <<400, 1>>, <<0, 1>>}

\* A reading: absent, a ladder speed (30s, 1/15, 1/30, 1/60, 1/4000), or a
\* non-positive value.
ReadingInputs ==
    {None} \cup {STANDARD_SHUTTERS[i] : i \in {1, 10, 11, 12, 18}}
           \cup {<<0, 1>>, <<-1, 60>>}

\* Arguments of nearest_standard_shutter: small fractions (with the ladder's
\* long end and the midpoints 6, 3, 3/2, 3/4, 3/8 among them), every ladder
\* entry, and the midpoint of every pair of neighbours.
SnapInputs ==
    {Q(n, dd) : n \in 1..MaxNum, dd \in 1..MaxDen}
    \cup Ladder
    \cup {Mul(<<1, 2>>, Sub(STANDARD_SHUTTERS[i],
                            Sub(<<0, 1>>, STANDARD_SHUTTERS[i + 1])))
            : i \in 1..(Len(STANDARD_SHUTTERS) - 1)}

NoResult ==
    [outcome |-> "none", text |-> <<>>, ev_final |-> None,
     zones_map |-> <<>>, t_std |-> None]

-----------------------------------------------------------------------------
(* The calculator: one call of recommend_exposure per request.             *)

Init ==
    /\ aperture \in ApertureInputs
    /\ iso \in IsoInputs
    /\ zone_choice \in ZoneChoices
    /\ brightest \in ReadingInputs
    /\ darkest \in ReadingInputs
    /\ midtone \in ReadingInputs
    /\ subject \in ReadingInputs
    /\ pc = "ready"
    /\ result = NoResult
    /\ t_in = None /\ t_out = None /\ t_again = None

\* The "Calculate Exposure" button: lines 197-200.
Calculate ==
    /\ pc = "ready"
    /\ result' = recommend_exposure(aperture, iso, zone_choice,
                                    brightest, darkest, midtone, subject)
    /\ pc' = "done"
    /\ UNCHANGED <<aperture, iso, zone_choice, brightest, darkest, midtone,
                   subject, t_in, t_out, t_again>>

Next == Calculate

Spec == Init /\ [][Next]_vars

-----------------------------------------------------------------------------
(* nearest_standard_shutter on its own, applied once and then again to its *)
(* own result.                                                             *)

SnapInit ==
    /\ t_in \in SnapInputs
    /\ t_out = None /\ t_again = None
    /\ pc = "ready"
    /\ aperture = <<16, 1>> /\ iso = <<100, 1>> /\ zone_choice = 3
    /\ brightest = None /\ darkest = None /\ midtone = None /\ subject = None
    /\ result = NoResult

Snap ==
    /\ pc = "ready"
    /\ t_out' = nearest_standard_shutter(t_in)
    /\ pc' = "snapped"
    /\ UNCHANGED <<aperture, iso, zone_choice, brightest, darkest, midtone,
                   subject, result, t_in, t_again>>

SnapAgain ==
    /\ pc = "snapped"
    /\ t_again' = nearest_standard_shutter(t_out)
    /\ pc' = "done"
    /\ UNCHANGED <<aperture, iso, zone_choice, brightest, darkest, midtone,
                   subject, result, t_in, t_out>>

SnapNext == Snap \/ SnapAgain

SnapSpec == SnapInit /\ [][SnapNext]_vars

-----------------------------------------------------------------------------
(* Properties.                                                             *)

Supplies(x) == x # None
NonPositive(x) == x # None /\ x[1] <= 0

ArgOf(label) ==
    CASE label = "Brightest" -> brightest
      [] label = "Darkest" -> darkest
      [] label = "Midtone" -> midtone
      [] label = "Subject" -> subject

Labels == {"Brightest", "Darkest", "Midtone", "Subject"}

\* The call returned a result computed from at least one reading.
Recommended ==
    /\ pc = "done"
    /\ result.outcome = "returned"
    /\ \E l \in Labels : Supplies(ArgOf(l))

PositiveSettings == aperture[1] > 0 /\ iso[1] > 0

\* The reading the placement is anchored on.
AnchorLabel ==
    IF Supplies(darkest) THEN "Darkest"
    ELSE IF Supplies(subject) THEN "Subject"
    ELSE IF Supplies(midtone) THEN "Midtone"
    ELSE "Brightest"

\* C1: ev_final is EV(Darkest) + (5 - zone_choice) if Darkest is supplied,
\* else EV(Subject), else EV(Midtone), else EV(Brightest); with another
\* reading present Brightest has no influence on it, and without Darkest
\* zone_choice has none.
C1_PriorityOrder ==
    Recommended =>
        /\ result.ev_final =
              IF Supplies(darkest)
              THEN Mul(Inv(darkest), Pow2(5 - zone_choice))
              ELSE IF Supplies(subject) THEN Inv(subject)
              ELSE IF Supplies(midtone) THEN Inv(midtone)
              ELSE Inv(brightest)
        /\ (\E l \in Labels \ {"Brightest"} : Supplies(ArgOf(l))) =>
              result.ev_final =
                 compute_zone5_ev(zone_choice,
                                  ReadingsEV(None, darkest, midtone, subject))
        /\ ~Supplies(darkest) =>
              \A z \in ZoneChoices :
                 result.ev_final =
                    compute_zone5_ev(z, ReadingsEV(brightest, darkest,
                                                   midtone, subject))

C1_Witness ==
    /\ Recommended
    /\ ~Supplies(darkest) /\ Supplies(subject) /\ Supplies(midtone)
    /\ Supplies(brightest)
    /\ subject # midtone /\ subject # brightest
    /\ result.ev_final = Inv(subject)

\* C2: a call with aperture <= 0 or iso <= 0 never returns a result,
\* whatever the readings.
C2_BadSettingsNeverReturn ==
    (pc = "done" /\ (aperture[1] <= 0 \/ iso[1] <= 0)) =>
        result.outcome # "returned"

DropInvalid(x) == IF NonPositive(x) THEN None ELSE x

\* C3: a reading with a zero or negative shutter value is discarded; the
\* call does not fail and returns what it returns without that reading.
C3_InvalidReadingDiscarded ==
    (/\ pc = "done"
     /\ PositiveSettings
     /\ \E l \in Labels : NonPositive(ArgOf(l))) =>
        /\ result.outcome = "returned"
        /\ result = recommend_exposure(aperture, iso, zone_choice,
                                       DropInvalid(brightest),
                                       DropInvalid(darkest),
                                       DropInvalid(midtone),
                                       DropInvalid(subject))

\* C4: at f/8, ISO 400 with Midtone 1/60 as the only reading, the snapped
\* shutter is strictly shorter than at f/16, ISO 100 with the same reading.
C4_FasterThanBaseline ==
    (/\ Recommended
     /\ aperture = <<8, 1>> /\ iso = <<400, 1>>
     /\ midtone = <<1, 60>>
     /\ ~Supplies(brightest) /\ ~Supplies(darkest) /\ ~Supplies(subject)) =>
        Less(result.t_std,
             recommend_exposure(<<reference_aperture, 1>>,
                                <<reference_iso, 1>>, zone_choice,
                                brightest, darkest, midtone, subject).t_std)

\* C5 as stated: the anchor reading's zone position is exactly 5 (looked at
\* for positive aperture and ISO only).
C5_AnchorAtZoneFive ==
    (Recommended /\ PositiveSettings) =>
        Get(result.zones_map, AnchorLabel) = Pow2(5)

\* C5 amended: the anchor reading's zone position is exactly 5 when the
\* anchor is Subject, Midtone or the sole Brightest reading; when Darkest is
\* the anchor its zone position is zone_choice.
C5_AnchorZone ==
    Recommended =>
        Get(result.zones_map, AnchorLabel) =
            IF Supplies(darkest) THEN Pow2(zone_choice) ELSE Pow2(5)

C5_Witness ==
    /\ Recommended
    /\ ~Supplies(darkest) /\ Supplies(midtone) /\ Supplies(brightest)
    /\ ~Supplies(subject)
    /\ midtone # brightest
    /\ Get(result.zones_map, "Midtone") = Pow2(5)
    /\ Get(result.zones_map, "Brightest") # Pow2(5)

C7_AllOrNothing ==
    (pc = "done" /\ result.outcome = "returned") =>
        IF \E l \in Labels : Supplies(ArgOf(l))
        THEN /\ result.ev_final # None
             /\ result.zones_map # <<>>
             /\ result.t_std # None
             /\ result.t_std \in Ladder
        ELSE /\ result.ev_final = None
             /\ result.zones_map = <<>>
             /\ result.t_std = None
             /\ Len(result.text) = 1
             /\ result.text[1].kind = "No valid readings provided."

C7_Witness ==
    /\ Recommended
    /\ iso = <<400, 1>> /\ aperture = <<8, 1>>
    /\ Supplies(darkest) /\ Supplies(brightest)
    /\ result.ev_final # None
    /\ Len(result.zones_map) = 2
    /\ result.t_std \in Ladder

\* C8: nearest_standard_shutter returns a ladder member at minimal absolute
\* distance from its argument, the earlier (longer) one of two equidistant
\* members; a ladder member maps to itself and snapping twice is snapping
\* once.
C8_NearestFirst ==
    (pc \in {"snapped", "done"}) =>
        /\ t_out \in Ladder
        /\ \A s \in Ladder :
              ~Less(Abs(Sub(s, t_in)), Abs(Sub(t_out, t_in)))
        /\ \A i, j \in 1..Len(STANDARD_SHUTTERS) :
              (/\ STANDARD_SHUTTERS[j] = t_out
               /\ Abs(Sub(STANDARD_SHUTTERS[i], t_in)) = Abs(Sub(t_out, t_in)))
              => i >= j
        /\ t_in \in Ladder => t_out = t_in
        /\ pc = "done" => t_again = t_out

\* 3 s is equidistant from 4 s and 2 s.
C8_Witness ==
    /\ pc = "done"
    /\ t_in = <<3, 1>>
    /\ Abs(Sub(<<4, 1>>, t_in)) = Abs(Sub(<<2, 1>>, t_in))
    /\ t_out = <<4, 1>>
    /\ t_again = <<4, 1>>

\* C9: at f/16, ISO 100, without Darkest a Subject (else Midtone) anchor
\* taken from the ladder is recommended unchanged; with Darkest the
\* recommendation is the snap of the Darkest time shortened by
\* (5 - zone_choice) stops.
C9_ReferenceSettings ==
    (/\ Recommended
     /\ aperture = <<reference_aperture, 1>>
     /\ iso = <<reference_iso, 1>>) =>
        /\ (~Supplies(darkest) /\ AnchorLabel \in {"Subject", "Midtone"}
            /\ ArgOf(AnchorLabel) \in Ladder) =>
              result.t_std = ArgOf(AnchorLabel)
        /\ Supplies(darkest) =>
              result.t_std =
                 nearest_standard_shutter(Div(darkest, Pow2(5 - zone_choice)))

C9_Witness ==
    /\ Recommended
    /\ aperture = <<16, 1>> /\ iso = <<100, 1>>
    /\ subject = <<1, 60>> /\ ~Supplies(darkest)
    /\ midtone = <<1, 15>>
    /\ result.t_std = <<1, 60>>

\* C10: with at least one reading the text holds exactly one placement line
\* (carrying ev_final), after the scene-range line, which is there exactly
\* when Brightest and Darkest are both supplied, and before the final
\* suggested-exposure line (looked at for positive aperture and ISO only).
C10_OnePlacementLine ==
    (Recommended /\ PositiveSettings) =>
        LET text == result.text
            at(kind) == {i \in 1..Len(text) : text[i].kind = kind}
            ranged == at("Scene brightness range")
            placed == (1..Len(text)) \ (ranged \cup at("Suggested exposure"))
        IN  /\ Cardinality(placed) = 1
            /\ \A i \in placed : text[i].ev = result.ev_final
            /\ Cardinality(ranged) =
                  IF Supplies(brightest) /\ Supplies(darkest) THEN 1 ELSE 0
            /\ \A i \in ranged : \A j \in placed : i < j
            /\ at("Suggested exposure") = {Len(text)}
            /\ \A j \in placed : j < Len(text)

====
